---- MODULE Spec2Model ----
(***************************************************************************)
(* The passphrase keyboard of trezor-core, src/trezor/ui/ng/passphrase.py: *)
(* the multi-tap editing handlers of PassphraseKeyboard and the event loop *)
(* that feeds them touch events, the pending-key timeout and page swipes.  *)
(*                                                                         *)
(* Strings are sequences of one-character strings.  The keyboard object    *)
(* is one record, kb, with a field per attribute of the Python object and  *)
(* of the widgets it owns; every handler is an operator from the record    *)
(* to the record after the call.                                           *)
(***************************************************************************)
EXTENDS Integers, Sequences, FiniteSets, TLC

VARIABLES kb, wait, elapsed, idle, lastEvent, tapRun, swipeRun

vars == <<kb, wait, elapsed, idle, lastEvent, tapRun, swipeRun>>

----------------------------------------------------------------------------
(* Bounds of the exploration.                                               *)

\* the longest buffer a key press may still append to
MaxLen == 2

\* the longest run of consecutive presses of one key that is followed
MaxTaps == 4

\* the longest buffer in the behaviours explored with fairness
FairMaxLen == 1

\* the grid positions the explored touches hit: a literal / SPACE / "_<>"
\* column and the "0" / "*#" / "$^=" column
TapSlots == {0, 9}

----------------------------------------------------------------------------
(* Static data.                                                             *)

\* res.load(ui.ICON_SPACE): an icon, not a string
SPACE == <<"ICON_SPACE">>

\* the characters \ ' ` " are written BACKSLASH, APOSTROPHE, BACKTICK, DQUOTE
KEYBOARD_KEYS ==
  << << <<"1">>, <<"2">>, <<"3">>, <<"4">>, <<"5">>,
        <<"6">>, <<"7">>, <<"8">>, <<"9">>, <<"0">> >>,
     << SPACE, <<"a","b","c">>, <<"d","e","f">>, <<"g","h","i">>,
        <<"j","k","l">>, <<"m","n","o">>, <<"p","q","r","s">>,
        <<"t","u","v">>, <<"w","x","y","z">>, <<"*","#">> >>,
     << SPACE, <<"A","B","C">>, <<"D","E","F">>, <<"G","H","I">>,
        <<"J","K","L">>, <<"M","N","O">>, <<"P","Q","R","S">>,
        <<"T","U","V">>, <<"W","X","Y","Z">>, <<"*","#">> >>,
     << <<"_","<",">">>, <<".",":","@">>, <<"/","|","BACKSLASH">>,
        <<"!","(",")">>, <<"+","%","&">>, <<"-","[","]">>,
        <<"?","{","}">>, <<",","APOSTROPHE","BACKTICK">>, <<";","DQUOTE","~">>,
        <<"$","^","=">> >> >>

\* len(KEYBOARD_KEYS)
PageCount == Len(KEYBOARD_KEYS)

\* the number of slots of a page
SlotCount == Len(KEYBOARD_KEYS[1])

CANCELLED == 0

\* loop.sleep(1000 * 1000 * 1): the length of the sleep, in seconds
SLEEP_SECONDS == 1

\* Python's None, as a button reference
None == [gen |-> -1, page |-> -1, pos |-> -1, content |-> <<>>]

\* what __iter__ has returned: nothing while the loop runs
NoResult == [raised |-> FALSE]

\* `raise ui.Result(CANCELLED)` caught by __iter__
Cancelled == [raised |-> TRUE, int |-> CANCELLED]

\* `raise ui.Result(text)` caught by __iter__
Confirmed(text) == [raised |-> TRUE, str |-> text]

\* s[:-1]
ButLast(s) == SubSeq(s, 1, Len(s) - 1)

----------------------------------------------------------------------------
(* Key buttons.  A KeyButton is an object: `is` compares identities.  An    *)
(* object is named by the generation of the key_buttons() call that made   *)
(* it and its position in the list; page is the layout page it was built   *)
(* from.                                                                    *)

KeyButton(gen, page, i) ==
  [gen |-> gen, page |-> page, pos |-> i,
   content |-> KEYBOARD_KEYS[page + 1][i + 1]]

get_text_content(button) ==
  IF button.content = SPACE THEN <<" ">> ELSE button.content

\* A fresh list of buttons: none of them is an object that is still
\* referenced.  After self.keys is overwritten the only reference left to
\* an older button is self.pending_button, so two generation names suffice.
key_buttons(self, page) ==
  LET gen == IF self.pending_button # None /\ self.pending_button.gen = 0
             THEN 1 ELSE 0
  IN [i \in 1..SlotCount |-> KeyButton(gen, page, i - 1)]

\* `self.pending_button is button`
is_pending(self, button) == self.pending_button = button

----------------------------------------------------------------------------
(* Widgets.                                                                 *)

\* Input.edit
Input_edit(self, content, pending) ==
  [self EXCEPT !.input_content = content,
               !.input_pending = pending,
               !.input_dirty = TRUE]

\* Button.enable on self.back: changes the button only if it was disabled
back_enable(self) ==
  IF self.back_enabled THEN self
  ELSE [self EXCEPT !.back_enabled = TRUE, !.back_dirty = TRUE]

\* Button.disable on self.back: changes the button only if it was enabled
back_disable(self) ==
  IF ~self.back_enabled THEN self
  ELSE [self EXCEPT !.back_enabled = FALSE, !.back_dirty = TRUE]

----------------------------------------------------------------------------
(* PassphraseKeyboard.                                                      *)

PassphraseKeyboard(page) ==
  LET fresh == [pending_button |-> None]
  IN [page |-> page,
      prompt_dirty |-> TRUE,
      input_content |-> <<>>,
      input_pending |-> FALSE,
      input_dirty |-> TRUE,
      back_enabled |-> TRUE,
      back_dirty |-> TRUE,
      done_enabled |-> TRUE,
      done_dirty |-> TRUE,
      keys |-> key_buttons(fresh, page),
      keys_dirty |-> TRUE,
      pending_button |-> None,
      pending_index |-> 0,
      result |-> NoResult]

\* edit without the else branch: an emptied buffer leaves back and prompt alone
edit_never_disables_back(self, content, button, index) ==
  LET s1 == [self EXCEPT !.pending_button = button,
                         !.pending_index = index]
      s2 == Input_edit(s1, content, button # None)
  IN IF content # <<>>
     THEN back_enable(s2)
     ELSE s2

\* edit that disables the confirm button together with the back button
edit_disables_done(self, content, button, index) ==
  LET s1 == [self EXCEPT !.pending_button = button,
                         !.pending_index = index]
      s2 == Input_edit(s1, content, button # None)
  IN IF content # <<>>
     THEN back_enable(s2)
     ELSE [back_disable(s2) EXCEPT !.prompt_dirty = TRUE,
                                   !.done_enabled = FALSE,
                                   !.done_dirty = TRUE]

\* edit that leaves the input widget as it was
edit_skips_input(self, content, button, index) ==
  LET s1 == [self EXCEPT !.pending_button = button,
                         !.pending_index = index]
      s2 == [s1 EXCEPT !.input_content = content]
  IN IF content # <<>>
     THEN back_enable(s2)
     ELSE [back_disable(s2) EXCEPT !.prompt_dirty = TRUE]

edit(self, content, button, index) ==
  LET s1 == [self EXCEPT !.pending_button = button,
                         !.pending_index = index]
      s2 == Input_edit(s1, content, button # None)
  IN IF content # <<>>
     THEN back_enable(s2)
     ELSE [back_disable(s2) EXCEPT !.prompt_dirty = TRUE]

\* the body is `pass`: nothing is raised
on_cancel(self) == self

\* the body is `pass`: nothing is raised
on_confirm(self) == self

\* on_back_click with the pending button kept across the deletion
on_back_click_keeps_pending(self) ==
  LET content == self.input_content
  IN IF content # <<>>
     THEN edit(self, ButLast(content), self.pending_button,
               self.pending_index)
     ELSE on_cancel(self)

on_back_click(self) ==
  LET content == self.input_content
  IN IF content # <<>>
     THEN edit(self, ButLast(content), None, 0)
     ELSE on_cancel(self)

\* on_key_click with the cycled character appended instead of replacing
on_key_click_cycle_appends(self, button) ==
  LET text == get_text_content(button)
  IN IF is_pending(self, button)
     THEN LET index == (self.pending_index + 1) % Len(text)
              content == self.input_content \o <<text[index + 1]>>
          IN edit(self, content, button, index)
     ELSE LET content == self.input_content \o <<text[1]>>
          IN edit(self, content, IF Len(text) > 1 THEN button ELSE None, 0)

\* on_key_click without the `len(text) > 1` test: every key becomes pending
on_key_click_always_pending(self, button) ==
  LET text == get_text_content(button)
  IN IF is_pending(self, button)
     THEN LET index == (self.pending_index + 1) % Len(text)
              content == ButLast(self.input_content) \o <<text[index + 1]>>
          IN edit(self, content, button, index)
     ELSE LET content == self.input_content \o <<text[1]>>
          IN edit(self, content, button, 0)

\* on_key_click with the index advanced but the old character left in place
on_key_click_cycle_keeps_char(self, button) ==
  LET text == get_text_content(button)
  IN IF is_pending(self, button)
     THEN LET index == (self.pending_index + 1) % Len(text)
          IN edit(self, self.input_content, button, index)
     ELSE LET content == self.input_content \o <<text[1]>>
          IN edit(self, content, IF Len(text) > 1 THEN button ELSE None, 0)

on_key_click(self, button) ==
  LET text == get_text_content(button)
  IN IF is_pending(self, button)
     THEN LET index == (self.pending_index + 1) % Len(text)
              content == ButLast(self.input_content) \o <<text[index + 1]>>
          IN edit(self, content, button, index)
     ELSE LET content == self.input_content \o <<text[1]>>
          IN edit(self, content, IF Len(text) > 1 THEN button ELSE None, 0)

\* on_timeout with the pending button passed on to edit
on_timeout_keeps_pending(self) ==
  edit(self, self.input_content, self.pending_button, self.pending_index)

on_timeout(self) == edit(self, self.input_content, None, 0)

\* dispatch(ui.RENDER, ...): every widget the event reaches repaints and
\* clears its dirty flag
dispatch_render(self) ==
  LET s1 == IF self.input_content # <<>>
            THEN [self EXCEPT !.input_dirty = FALSE]
            ELSE [self EXCEPT !.prompt_dirty = FALSE]
  IN [s1 EXCEPT !.back_dirty = FALSE,
                !.done_dirty = FALSE,
                !.keys_dirty = FALSE]

\* spawn_paging with the key buttons of the old page kept
paging_keeps_keys(self, swipe) ==
  LET page == IF swipe = "SWIPE_LEFT"
              THEN (self.page + 1) % PageCount
              ELSE (self.page - 1) % PageCount
  IN [self EXCEPT !.page = page,
                  !.back_dirty = TRUE,
                  !.done_dirty = TRUE,
                  !.input_dirty = TRUE,
                  !.prompt_dirty = TRUE]

\* spawn_paging that stops at the first and the last page instead of wrapping
paging_clamps(self, swipe) ==
  LET page == IF swipe = "SWIPE_LEFT"
              THEN (IF self.page + 1 < PageCount
                    THEN self.page + 1 ELSE self.page)
              ELSE (IF self.page > 0 THEN self.page - 1 ELSE self.page)
  IN [self EXCEPT !.page = page,
                  !.keys = key_buttons(self, page),
                  !.keys_dirty = TRUE,
                  !.back_dirty = TRUE,
                  !.done_dirty = TRUE,
                  !.input_dirty = TRUE,
                  !.prompt_dirty = TRUE]

\* the body of spawn_paging after the swipe has completed
paging(self, swipe) ==
  LET page == IF swipe = "SWIPE_LEFT"
              THEN (self.page + 1) % PageCount
              ELSE (self.page - 1) % PageCount
  IN [self EXCEPT !.page = page,
                  !.keys = key_buttons(self, page),
                  !.keys_dirty = TRUE,
                  !.back_dirty = TRUE,
                  !.done_dirty = TRUE,
                  !.input_dirty = TRUE,
                  !.prompt_dirty = TRUE]

\* dispatch that repaints the input on every touch, hit or miss
dispatch_click_marks_input(self, target) ==
  LET s1 == [self EXCEPT !.input_dirty = TRUE]
  IN CASE target.widget = "back" ->
            IF s1.back_enabled THEN on_back_click(s1) ELSE s1
       [] target.widget = "done" ->
            IF s1.done_enabled THEN on_confirm(s1) ELSE s1
       [] target.widget = "key" ->
            on_key_click(s1, s1.keys[target.pos + 1])
       [] OTHER -> s1

\* dispatch of a completed touch on `target`: the widget under the touch
\* runs its on_click, unless it is a disabled button; a touch outside every
\* widget reaches no handler
dispatch_click(self, target) ==
  CASE target.widget = "back" ->
         IF self.back_enabled THEN on_back_click(self) ELSE self
    [] target.widget = "done" ->
         IF self.done_enabled THEN on_confirm(self) ELSE self
    [] target.widget = "key" ->
         on_key_click(self, self.keys[target.pos + 1])
    [] OTHER -> self

\* the handler a completed touch on `target` ends in
handler_called(self, target) ==
  CASE target.widget = "back" ->
         IF ~self.back_enabled THEN "none"
         ELSE IF self.input_content # <<>> THEN "edit" ELSE "on_cancel"
    [] target.widget = "done" ->
         IF self.done_enabled THEN "on_confirm" ELSE "none"
    [] target.widget = "key" -> "edit"
    [] OTHER -> "none"

----------------------------------------------------------------------------
(* spawn_input.  wait is the spawn the loop is suspended on, elapsed the    *)
(* whole seconds since its sleep was scheduled.                             *)

\* spawn_input with the sleep raced on every wait
next_wait_always_timeout(self) == "spawn_timeout"

\* spawn_input with the sleep never raced
next_wait_always_touch(self) == "spawn_touch"

\* the spawn an iteration of spawn_input awaits
next_wait(self) ==
  IF self.pending_button # None THEN "spawn_timeout" ELSE "spawn_touch"

\* `await spawn`: the sleep of the awaited spawn is scheduled anew, so the
\* seconds it has run are none
rearm(seconds) == 0

----------------------------------------------------------------------------
(* The record of what the loop did last, and of the runs of events the      *)
(* properties speak about.                                                  *)

\* an event the loop has processed: its source, the widget it hit, the handler
\* it ended in, the button that was pending when it arrived and the seconds
\* the sleep had run by then
Event(self, src, widget, pos, calls) ==
  [src |-> src, widget |-> widget, pos |-> pos, calls |-> calls,
   pending |-> self.pending_button, at |-> elapsed]

Target(widget, pos) == [widget |-> widget, pos |-> pos]

\* no run of key presses is being followed
NoTapRun == [key |-> None, len |-> 0, base |-> <<>>]

\* no run of swipes is being followed
NoSwipeRun == [seq |-> <<>>, base |-> [page |-> -1]]

\* the runs of swipes that are followed: forward swipes up to a full turn,
\* and one forward swipe followed by one backward swipe
FollowedSwipes(seq) ==
  \/ /\ Len(seq) \in 1..PageCount
     /\ \A i \in 1..Len(seq) : seq[i] = "SWIPE_LEFT"
  \/ seq = <<"SWIPE_LEFT", "SWIPE_RIGHT">>

\* the run of key presses after a press of `button` in state `self`
\* (a run starts only with a press of a button that is not pending)
TapRunAfter(self, button) ==
  IF tapRun.key = button
  THEN [tapRun EXCEPT !.len = @ + 1]
  ELSE IF is_pending(self, button)
  THEN NoTapRun
  ELSE [key |-> button, len |-> 1, base |-> self.input_content]

\* the state a run of swipes starts from, as far as it is compared with the
\* state the run ends in: the dirty flags are not
Snapshot(self) ==
  [self EXCEPT !.prompt_dirty = TRUE, !.input_dirty = TRUE,
               !.back_dirty = TRUE, !.done_dirty = TRUE,
               !.keys_dirty = TRUE]

\* the run of swipes after a swipe in direction `swipe` in state `self`
SwipeRunAfter(self, swipe) ==
  IF swipeRun.seq # <<>> /\ FollowedSwipes(Append(swipeRun.seq, swipe))
  THEN [swipeRun EXCEPT !.seq = Append(@, swipe)]
  ELSE IF FollowedSwipes(<<swipe>>)
  THEN [seq |-> <<swipe>>, base |-> Snapshot(self)]
  ELSE NoSwipeRun

----------------------------------------------------------------------------
(* The event loop: __iter__ runs spawn_render, spawn_input and spawn_paging *)
(* until one of them raises ui.Result.                                      *)

Running == ~kb.result.raised

Init ==
  /\ \E page \in 0..(PageCount - 1) : kb = PassphraseKeyboard(page)
  /\ wait = next_wait(kb)
  /\ elapsed = 0
  /\ idle = 0
  /\ lastEvent = Event(kb, "init", "none", -1, "none")
  /\ tapRun = NoTapRun
  /\ swipeRun = NoSwipeRun

\* spawn_input: a touch that ends on the key at grid position pos
TouchKey(pos) ==
  LET button == kb.keys[pos + 1]
  IN /\ Running
     /\ is_pending(kb, button) \/ Len(kb.input_content) < MaxLen
     /\ tapRun.key = button => tapRun.len < MaxTaps
     /\ kb' = dispatch_click(kb, Target("key", pos))
     /\ wait' = next_wait(kb')
     /\ elapsed' = rearm(elapsed)
     /\ idle' = 0
     /\ lastEvent' = Event(kb, "touch", "key", pos,
                           handler_called(kb, Target("key", pos)))
     /\ tapRun' = TapRunAfter(kb, button)
     /\ swipeRun' = NoSwipeRun

\* spawn_input: a touch that ends on the back button
TouchBack ==
  /\ Running
  /\ kb' = dispatch_click(kb, Target("back", -1))
  /\ wait' = next_wait(kb')
  /\ elapsed' = rearm(elapsed)
  /\ idle' = 0
  /\ lastEvent' = Event(kb, "touch", "back", -1,
                        handler_called(kb, Target("back", -1)))
  /\ tapRun' = NoTapRun
  /\ swipeRun' = NoSwipeRun

\* spawn_input: a touch that ends on the confirm button
TouchDone ==
  /\ Running
  /\ kb' = dispatch_click(kb, Target("done", -1))
  /\ wait' = next_wait(kb')
  /\ elapsed' = rearm(elapsed)
  /\ idle' = 0
  /\ lastEvent' = Event(kb, "touch", "done", -1,
                        handler_called(kb, Target("done", -1)))
  /\ tapRun' = NoTapRun
  /\ swipeRun' = NoSwipeRun

\* spawn_input: a touch that ends on no button
TouchNone ==
  /\ Running
  /\ kb' = dispatch_click(kb, Target("none", -1))
  /\ wait' = next_wait(kb')
  /\ elapsed' = rearm(elapsed)
  /\ idle' = 0
  /\ lastEvent' = Event(kb, "touch", "none", -1,
                        handler_called(kb, Target("none", -1)))
  /\ tapRun' = NoTapRun
  /\ swipeRun' = NoSwipeRun

\* time passes while the sleep of spawn_timeout is scheduled
Tick ==
  /\ Running
  /\ wait = "spawn_timeout"
  /\ elapsed < SLEEP_SECONDS
  /\ elapsed' = elapsed + 1
  /\ idle' = IF idle < SLEEP_SECONDS THEN idle + 1 ELSE idle
  /\ lastEvent' = Event(kb, "tick", "none", -1, "none")
  /\ UNCHANGED <<kb, wait, tapRun, swipeRun>>

\* spawn_input: the sleep of spawn_timeout has finished before a touch
Timeout ==
  /\ Running
  /\ wait = "spawn_timeout"
  /\ elapsed = SLEEP_SECONDS
  /\ kb' = on_timeout(kb)
  /\ wait' = next_wait(kb')
  /\ elapsed' = rearm(elapsed)
  /\ idle' = 0
  /\ lastEvent' = Event(kb, "timeout", "none", -1, "edit")
  /\ tapRun' = NoTapRun
  /\ swipeRun' = NoSwipeRun

\* spawn_paging: a horizontal swipe has completed; loop.spawn returns and
\* __iter__ starts the three tasks again
SwipeDone(swipe) ==
  /\ Running
  /\ kb' = paging(kb, swipe)
  /\ wait' = next_wait(kb')
  /\ elapsed' = rearm(elapsed)
  /\ idle' = 0
  /\ lastEvent' = Event(kb, "swipe", swipe, -1, "none")
  /\ tapRun' = NoTapRun
  /\ swipeRun' = SwipeRunAfter(kb, swipe)

\* spawn_render: the widgets repaint
Render ==
  /\ Running
  /\ kb' = dispatch_render(kb)
  /\ lastEvent' = Event(kb, "render", "none", -1, "none")
  /\ UNCHANGED <<wait, elapsed, idle, tapRun, swipeRun>>

Next ==
  \/ \E pos \in TapSlots : TouchKey(pos)
  \/ TouchBack
  \/ TouchDone
  \/ TouchNone
  \/ Tick
  \/ Timeout
  \/ \E swipe \in {"SWIPE_LEFT", "SWIPE_RIGHT"} : SwipeDone(swipe)
  \/ Render

Spec == Init /\ [][Next]_vars

\* the steps of the loop that keep the buffer within FairMaxLen
FairNext ==
  \/ \E pos \in TapSlots :
       TouchKey(pos) /\ Len(kb'.input_content) <= FairMaxLen
  \/ TouchBack
  \/ TouchDone
  \/ TouchNone
  \/ Tick
  \/ Timeout
  \/ \E swipe \in {"SWIPE_LEFT", "SWIPE_RIGHT"} : SwipeDone(swipe)
  \/ Render

\* the scheduler's clock advances and a sleep whose time has come is resumed
FairSpec ==
  Init /\ [][FairNext]_vars /\ WF_vars(Tick) /\ WF_vars(Timeout)

----------------------------------------------------------------------------
(* Properties.                                                              *)

\* the candidate characters of the key whose run of presses is followed
RunCandidates == get_text_content(tapRun.key)

\* the buffer a run of tapRun.len presses of a key with candidates c is
\* said to leave: t + c[(k-1) mod len(c)]
RunExpected ==
  Append(tapRun.base,
         RunCandidates[((tapRun.len - 1) % Len(RunCandidates)) + 1])

\* C1, as stated: for every key with candidate string c, len(c) >= 1, k
\* consecutive presses of that key, started while it is not pending with
\* buffer t, leave the buffer t + c[(k-1) mod len(c)].
C1_AsStated ==
  tapRun.len >= 1 => kb.input_content = RunExpected

\* C1, amended: for every key with at least two candidate characters, k
\* consecutive presses of that key, started while it is not pending with
\* buffer t, leave the buffer t + c[(k-1) mod len(c)], of length len(t)+1.
C1_MultiTapCycles ==
  (tapRun.len >= 1 /\ Len(RunCandidates) >= 2) =>
     /\ kb.input_content = RunExpected
     /\ Len(kb.input_content) = Len(tapRun.base) + 1

\* a run of four presses of a three-candidate key on a non-empty buffer: the
\* fourth press has wrapped to the first candidate
C1_Witness ==
  /\ tapRun.len = 4
  /\ Len(RunCandidates) = 3
  /\ tapRun.base # <<>>
  /\ kb.input_content = Append(tapRun.base, RunCandidates[1])

\* the step is a press of the key at pos, which is not the pending button,
\* while some button is pending
PressOfOtherKey(pos) ==
  /\ lastEvent'.src = "touch"
  /\ lastEvent'.widget = "key"
  /\ lastEvent'.pos = pos
  /\ kb.pending_button # None
  /\ kb.pending_button # kb.keys[pos + 1]

\* C2: a press of a key T while a different key S is pending keeps the whole
\* buffer as a prefix, appends T's first candidate, and leaves T pending at
\* index 0 if T has more than one candidate, and nothing pending otherwise.
C2_OtherKeyCommits ==
  [][\A pos \in 0..(SlotCount - 1) :
       PressOfOtherKey(pos) =>
         LET T == kb.keys[pos + 1]
             c == get_text_content(T)
         IN /\ kb'.input_content = Append(kb.input_content, c[1])
            /\ kb'.pending_index = 0
            /\ IF Len(c) > 1
               THEN kb'.pending_button = T /\ kb'.input_pending
               ELSE kb'.pending_button = None /\ ~kb'.input_pending]_vars

\* a one-candidate key was pressed while a multi-tap key was pending
C2_Witness ==
  /\ lastEvent.src = "touch"
  /\ lastEvent.widget = "key"
  /\ lastEvent.pending # None
  /\ lastEvent.pending # kb.keys[lastEvent.pos + 1]
  /\ Len(get_text_content(kb.keys[lastEvent.pos + 1])) = 1
  /\ kb.pending_button = None
  /\ Len(kb.input_content) = 2

\* C3: a timeout leaves the buffer and the page alone; all it does is clear
\* the pending button and index (and the input's pending marker) and mark
\* the input dirty; a second on_timeout changes nothing more.
C3_TimeoutOnlyClearsPending ==
  [][lastEvent'.src = "timeout" =>
       /\ kb'.input_content = kb.input_content
       /\ kb'.page = kb.page
       /\ kb' = [kb EXCEPT !.pending_button = None,
                           !.pending_index = 0,
                           !.input_pending = FALSE,
                           !.input_dirty = TRUE]
       /\ on_timeout(kb') = kb']_vars

\* a timeout has cleared a pending button and left its character in the buffer
C3_Witness ==
  /\ lastEvent.src = "timeout"
  /\ lastEvent.pending # None
  /\ kb.pending_button = None
  /\ kb.input_content # <<>>
  /\ ~kb.input_pending

\* the step is a touch of the enabled back button (on_back_click runs)
BackActivation ==
  /\ lastEvent'.src = "touch"
  /\ lastEvent'.widget = "back"
  /\ lastEvent'.calls # "none"

\* C4: on_back_click on a non-empty buffer removes exactly the last
\* character and clears the pending state, pending or not; on an empty buffer
\* it edits nothing and calls on_cancel.
C4_BackspaceRemovesOne ==
  [][BackActivation =>
       IF kb.input_content # <<>>
       THEN /\ Len(kb'.input_content) = Len(kb.input_content) - 1
            /\ kb'.input_content =
                 SubSeq(kb.input_content, 1, Len(kb.input_content) - 1)
            /\ kb'.pending_button = None
            /\ kb'.pending_index = 0
            /\ ~kb'.input_pending
            /\ lastEvent'.calls = "edit"
       ELSE /\ kb' = kb
            /\ lastEvent'.calls = "on_cancel"]_vars

\* a backspace has removed the pending character of a two-character buffer
C4_Witness ==
  /\ lastEvent.src = "touch"
  /\ lastEvent.widget = "back"
  /\ lastEvent.calls = "edit"
  /\ lastEvent.pending # None
  /\ Len(kb.input_content) = 1
  /\ kb.pending_button = None

\* C5, as stated: a touch of the back button while the buffer is empty ends
\* the loop with the result CANCELLED.
C5_AsStated ==
  [][(/\ lastEvent'.src = "touch"
      /\ lastEvent'.widget = "back"
      /\ kb.input_content = <<>>) => kb'.result = Cancelled]_vars

\* C6, as stated: a touch of the confirm button ends the loop with the
\* buffer content of that moment as the result.
C6_AsStated ==
  [][(/\ lastEvent'.src = "touch"
      /\ lastEvent'.widget = "done")
       => kb'.result = Confirmed(kb.input_content)]_vars

\* a followed run of swipes has come back to the page it started from
RoundTrip ==
  \/ swipeRun.seq = <<"SWIPE_LEFT", "SWIPE_RIGHT">>
  \/ Len(swipeRun.seq) = PageCount

\* the buffer a press of the key at pos would leave in state `self`
BufferAfterPress(self, pos) ==
  on_key_click(self, self.keys[pos + 1]).input_content

\* C7, as stated: after PageCount forward swipes, or a forward and a backward
\* swipe, the page, the buffer and the pending button and index are what
\* they were, and a press of the slot that was pending does what it would
\* have done without the swipes.
C7_AsStated ==
  RoundTrip =>
    LET before == swipeRun.base
    IN /\ kb.page = before.page
       /\ kb.input_content = before.input_content
       /\ kb.pending_button = before.pending_button
       /\ kb.pending_index = before.pending_index
       /\ before.pending_button # None =>
            BufferAfterPress(kb, before.pending_button.pos)
              = BufferAfterPress(before, before.pending_button.pos)

\* the last event was one the Coordinator ends on: a touch of the confirm
\* button, or a touch of the back button on an empty buffer
AfterTerminalEvent ==
  /\ lastEvent.src = "touch"
  /\ \/ lastEvent.widget = "done"
     \/ /\ lastEvent.widget = "back"
        /\ lastEvent.calls # "edit"
        /\ kb.input_content = <<>>

\* C8, as stated: once the loop has reached a terminal transition no event
\* is processed: the buffer, the pending state and the page stay as they are.
C8_AsStated ==
  [][AfterTerminalEvent =>
       /\ kb'.input_content = kb.input_content
       /\ kb'.pending_button = kb.pending_button
       /\ kb'.pending_index = kb.pending_index
       /\ kb'.page = kb.page]_vars

\* C9: while a button is pending the buffer is not empty, the pending index
\* is an index into the button's candidates, and the buffer ends with the
\* candidate at that index.
C9_PendingShowsLastChar ==
  kb.pending_button # None =>
    LET c == get_text_content(kb.pending_button)
        t == kb.input_content
    IN /\ t # <<>>
       /\ 0 <= kb.pending_index
       /\ kb.pending_index < Len(c)
       /\ t[Len(t)] = c[kb.pending_index + 1]

\* a button cycled to its third candidate is still pending after a swipe
C9_Witness ==
  /\ kb.pending_button # None
  /\ kb.pending_index = 2
  /\ lastEvent.src = "swipe"
  /\ Len(kb.input_content) = 2

\* C10, as stated: the button at a grid position of the shown page is taken
\* for the pending one exactly when the pending slot has the same page and
\* position.
C10_AsStated ==
  \A pos \in 0..(SlotCount - 1) :
    is_pending(kb, kb.keys[pos + 1]) <=>
      /\ kb.pending_button # None
      /\ kb.pending_button.page = kb.page
      /\ kb.pending_button.pos = pos

\* C11: the sleep is raced exactly while a button is pending, the loop
\* waits on touch alone while none is, and every timeout that was handled
\* arrived while a button was pending.
C11_TimerOnlyWhilePending ==
  /\ wait = "spawn_timeout" <=> kb.pending_button # None
  /\ wait = "spawn_touch" <=> kb.pending_button = None
  /\ wait = "spawn_touch" => elapsed = 0
  /\ lastEvent.src = "timeout" => lastEvent.pending # None

\* a handled timeout, after which the loop waits on touch alone
C11_Witness ==
  /\ lastEvent.src = "timeout"
  /\ lastEvent.pending # None
  /\ wait = "spawn_touch"
  /\ kb.pending_button = None

\* the step processes a touch or a completed swipe
InputStep ==
  /\ lastEvent' # lastEvent
  /\ lastEvent'.src \in {"touch", "swipe"}

\* C12: if from some point on no touch and no swipe is delivered, a pending
\* button is in the end cleared for good; without a touch or swipe only a
\* timeout clears it, and the timeout leaves the buffer as it is.
C12_PendingEventuallyCommitted ==
  /\ (<>[][~InputStep]_vars) => <>[](kb.pending_button = None)
  /\ [][(/\ kb.pending_button # None
         /\ kb'.pending_button = None
         /\ ~InputStep) =>
           /\ lastEvent'.src = "timeout"
           /\ kb'.input_content = kb.input_content]_vars

\* a timeout that came a full sleep after the pending button's last event
C12_Witness ==
  /\ lastEvent.src = "timeout"
  /\ lastEvent.at = SLEEP_SECONDS
  /\ lastEvent.pending # None
  /\ lastEvent.pending.content # <<>>
  /\ kb.pending_button = None
  /\ kb.input_content # <<>>

\* C13: while a button is pending every processed touch, hit or miss, and
\* every completed swipe leaves the sleep scheduled anew with no second run,
\* and a timeout is handled only when a whole sleep has passed since the
\* last processed touch or swipe.
C13_EveryEventRestartsTimer ==
  [][/\ (lastEvent'.src \in {"touch", "swipe"} /\ kb'.pending_button # None)
          => (wait' = "spawn_timeout" /\ elapsed' = 0)
     /\ lastEvent'.src = "timeout" => idle = SLEEP_SECONDS]_vars

\* a touch outside every widget arrived when the sleep had run its second,
\* and the button is still pending with the sleep started over
C13_Witness ==
  /\ lastEvent.src = "touch"
  /\ lastEvent.widget = "none"
  /\ lastEvent.at = SLEEP_SECONDS
  /\ kb.pending_button # None
  /\ wait = "spawn_timeout"
  /\ elapsed = 0

\* the step ends in edit: a key press, a backspace or a timeout
EditStep == lastEvent' # lastEvent /\ lastEvent'.calls = "edit"

\* C14: after every edit a non-empty buffer has the back and confirm
\* buttons enabled, and an empty buffer has the back button disabled and the
\* prompt dirty.
C14_EditSetsAffordances ==
  [][EditStep =>
       IF kb'.input_content # <<>>
       THEN kb'.back_enabled /\ kb'.done_enabled
       ELSE ~kb'.back_enabled /\ kb'.prompt_dirty]_vars

\* a backspace has emptied the buffer: back is disabled, the prompt dirty
C14_Witness ==
  /\ lastEvent.src = "touch"
  /\ lastEvent.widget = "back"
  /\ lastEvent.calls = "edit"
  /\ kb.input_content = <<>>
  /\ ~kb.back_enabled
  /\ kb.prompt_dirty

\* the live key buttons are the SlotCount slots of the page shown, in order
KeysShowPage(self) ==
  /\ Len(self.keys) = SlotCount
  /\ \A i \in 1..SlotCount :
       /\ self.keys[i].content = KEYBOARD_KEYS[self.page + 1][i]
       /\ self.keys[i].page = self.page
       /\ self.keys[i].pos = i - 1

\* C15: the live key buttons are always the ten slots of KEYBOARD_KEYS[page];
\* a completed swipe moves the page by one step, builds new key buttons for
\* the new page and leaves back, confirm, input and the keys dirty.
C15_KeysFollowPage ==
  /\ KeysShowPage(kb)
  /\ SlotCount = 10
  /\ [][/\ KeysShowPage(kb')
        /\ lastEvent'.src = "swipe" =>
             /\ kb'.page # kb.page
             /\ kb'.page \in {(kb.page + 1) % PageCount,
                              (kb.page - 1) % PageCount}
             /\ \A i \in 1..SlotCount :
                  \A j \in 1..SlotCount : kb'.keys[i] # kb.keys[j]
             /\ kb'.back_dirty /\ kb'.done_dirty
             /\ kb'.input_dirty /\ kb'.keys_dirty]_vars

\* a swipe right after a repaint: new keys of the new page, everything dirty
C15_Witness ==
  /\ lastEvent.src = "swipe"
  /\ swipeRun.seq = <<"SWIPE_LEFT">>
  /\ kb.page = (swipeRun.base.page + 1) % PageCount
  /\ kb.keys # swipeRun.base.keys
  /\ kb.input_content # <<>>
  /\ kb.back_dirty /\ kb.done_dirty /\ kb.input_dirty /\ kb.keys_dirty

\* C16: a touch that hits no key, nor back, nor confirm changes nothing of
\* the keyboard: buffer, pending button and index, page, and every widget's
\* dirty flag and enabled state stay as they are.
C16_MissedTouchIsNoOp ==
  [][(lastEvent'.src = "touch" /\ lastEvent'.widget = "none") =>
       /\ kb' = kb
       /\ lastEvent'.calls = "none"]_vars

\* a missed touch while a button is pending and the widgets are repainted
C16_Witness ==
  /\ lastEvent.src = "touch"
  /\ lastEvent.widget = "none"
  /\ lastEvent.calls = "none"
  /\ kb.pending_button # None
  /\ kb.input_pending
  /\ ~kb.input_dirty
  /\ ~kb.back_dirty

\* C17: at every point where another task can run, the mutation before it
\* is whole: the input's pending marker agrees with the pending button, the
\* buffer already ends with the pending candidate, and the key buttons
\* belong to the page already shown.
C17_NoHalfAppliedState ==
  /\ kb.input_pending <=> kb.pending_button # None
  /\ kb.pending_button # None =>
       /\ kb.input_content # <<>>
       /\ kb.input_content[Len(kb.input_content)]
            = get_text_content(kb.pending_button)[kb.pending_index + 1]
  /\ kb.pending_button = None => kb.pending_index = 0
  /\ \A i \in 1..SlotCount : kb.keys[i].page = kb.page
  /\ kb.back_enabled \/ kb.input_content = <<>>

\* the repaint task runs right after a swipe that followed a key press
C17_Witness ==
  /\ lastEvent.src = "render"
  /\ swipeRun.seq # <<>>
  /\ kb.page # swipeRun.base.page
  /\ kb.pending_button # None
  /\ kb.input_pending
  /\ ~kb.keys_dirty

\* C18: the page stays in 0..PageCount-1; SWIPE_LEFT moves it to
\* (page + 1) mod PageCount and any other swipe to (page - 1) mod PageCount,
\* wrapping at both ends.
C18_PageIsModuloCounter ==
  /\ kb.page \in 0..(PageCount - 1)
  /\ [][/\ kb'.page \in 0..(PageCount - 1)
        /\ lastEvent'.src = "swipe" =>
             IF lastEvent'.widget = "SWIPE_LEFT"
             THEN kb'.page = (IF kb.page = PageCount - 1
                              THEN 0 ELSE kb.page + 1)
             ELSE kb'.page = (IF kb.page = 0
                              THEN PageCount - 1 ELSE kb.page - 1)]_vars

\* a backward swipe has wrapped from page 0 to the last page
C18_Witness ==
  /\ lastEvent.src = "swipe"
  /\ lastEvent.widget = "SWIPE_RIGHT"
  /\ kb.page = PageCount - 1
  /\ kb.keys[1].content = KEYBOARD_KEYS[PageCount][1]

\* C19: a pending button always has at least two candidate characters; a
\* digit key or the space key is never pending.
C19_OnlyMultiTapPending ==
  /\ kb.pending_button # None =>
       /\ Len(get_text_content(kb.pending_button)) >= 2
       /\ kb.pending_button.content # SPACE
       /\ kb.pending_button.page # 0
  /\ (lastEvent.src = "touch" /\ lastEvent.widget = "key"
        /\ Len(get_text_content(kb.keys[lastEvent.pos + 1])) = 1)
       => kb.pending_button = None

\* the space key was pressed while another key was pending: nothing pending
C19_Witness ==
  /\ lastEvent.src = "touch"
  /\ lastEvent.widget = "key"
  /\ kb.keys[lastEvent.pos + 1].content = SPACE
  /\ lastEvent.pending # None
  /\ kb.pending_button = None
  /\ kb.input_content[Len(kb.input_content)] = " "

\* C20: the confirm button is never disabled, so a touch of it always
\* reaches on_confirm, empty buffer or not; the back button is enabled at
\* the start, with the buffer empty, and disabled after every edit that
\* leaves the buffer empty.
C20_ConfirmNeverDisabled ==
  /\ kb.done_enabled
  /\ lastEvent.src = "init" => (kb.back_enabled /\ kb.input_content = <<>>)
  /\ (lastEvent.calls = "edit" /\ kb.input_content = <<>>)
       => ~kb.back_enabled
  /\ (lastEvent.src = "touch" /\ lastEvent.widget = "done")
       => lastEvent.calls = "on_confirm"

\* a touch of confirm reached on_confirm after backspaces emptied the buffer
C20_Witness ==
  /\ lastEvent.src = "touch"
  /\ lastEvent.widget = "done"
  /\ lastEvent.calls = "on_confirm"
  /\ kb.input_content = <<>>
  /\ ~kb.back_enabled
  /\ kb.done_enabled

====
